---- MODULE Spec2Model ----
(***************************************************************************)
(* A model of system-index: the interactive dashboard (src/src/tui/mod.rs) *)
(* and the snapshot acquisition layer (src/src/models/mod.rs).             *)
(*                                                                         *)
(* Spec      : main -> App::new -> App::run (terminal setup, run_app loop, *)
(*             terminal restore), one step per terminal / input operation. *)
(* SpecProbe : get_public_ip, one loop iteration per step, and             *)
(*             benchmark_bandwidth, over every outcome of a request.       *)
(* SpecRender: the Network views, App::render_network and                  *)
(*             print_network_info, each applied once to a SystemInfo.      *)
(* SpecCalls : the formatting helpers and the Memory / Disks renderers,    *)
(*             each applied once to an input.                              *)
(* SpecCollect: one SystemInfo::collect, one step per call and per request, *)
(*             with the time each request takes.                           *)
(***************************************************************************)
EXTENDS Integers, Sequences, FiniteSets, TLC

VARIABLES
    pc,             \* position of the main thread in main / App::run / run_app
    system_info,    \* App.system_info: the current Snapshot
    elapsed,        \* App.last_refresh.elapsed(), in whole seconds
    status_message, \* App.status_message
    current_tab,    \* App.current_tab
    rawMode,        \* terminal: raw mode enabled
    altScreen,      \* terminal: alternate screen entered
    mouseCapture,   \* terminal: mouse capture enabled
    cursorHidden,   \* terminal: cursor hidden (by Terminal::draw)
    ops,            \* terminal operations App::run attempted, in order, with their outcome
    loopResult,     \* `result` of run_app (tui/mod.rs:63)
    runResult,      \* what App::run returned
    pending,        \* the input event event::poll reported ready
    collects,       \* number of SystemInfo::collect invocations so far
    timerRefreshes, \* number of refreshes fired by the timer check
    scenario,       \* how far the keys handled so far follow ScenarioKeys (-1: they do not)
    drawn,          \* the Snapshot shown by the last successful draw
    ip,             \* get_public_ip: loop state of the running call
    bw,             \* benchmark_bandwidth: request outcome and returned value
    network_view,   \* the Network view last built, with the SystemInfo it was built from
    call,           \* the helper called last, with its arguments and what it returned
    cx              \* SystemInfo::collect: position, calls made so far, time spent, results

vars == <<pc, system_info, elapsed, status_message, current_tab, rawMode, altScreen,
          mouseCapture, cursorHidden, ops, loopResult, runResult, pending, collects,
          timerRefreshes, scenario, drawn, ip, bw, network_view, call, cx>>

appVars == <<system_info, elapsed, status_message, current_tab>>
termVars == <<rawMode, altScreen, mouseCapture, cursorHidden>>
probeVars == <<ip, bw>>
renderVars == <<network_view, call, cx>>

-----------------------------------------------------------------------------
(* Bounds of the model *)

MaxBody == 2        \* longest response body, in characters
MaxCollects == 3    \* collect invocations in one run
MaxElapsed == 3     \* the clock stops being tracked past this many seconds
MaxBytes == 2       \* most bytes a bandwidth download delivers
MaxMicros == 2      \* longest bandwidth download, in microseconds
MaxIfaces == 2      \* most network interfaces of a SystemInfo
MaxCounter == 1     \* largest byte counter of an interface
MaxTotal == 50      \* largest `total` of a used / total pair
MaxDigits == 5      \* longest byte count handed to format_bytes, in base-1024 digits
MaxDays == 2        \* longest uptime handed to format_uptime, in whole days

(* Program constants *)

REFRESH_SECS == 2   \* Duration::from_secs(2)

-----------------------------------------------------------------------------
(* Option<T> *)

None == [some |-> FALSE]
Some(v) == [some |-> TRUE, val |-> v]

-----------------------------------------------------------------------------
(* str::trim, on a string held as a sequence of characters *)

Chars == {" ", "1", "2"}

IsWhitespace(c) == c \in {" ", "\n", "\t"}

RECURSIVE TrimStart(_)
TrimStart(s) ==
    IF s # <<>> /\ IsWhitespace(Head(s)) THEN TrimStart(Tail(s)) ELSE s

RECURSIVE TrimEnd(_)
TrimEnd(s) ==
    IF s # <<>> /\ IsWhitespace(s[Len(s)])
    THEN TrimEnd(SubSeq(s, 1, Len(s) - 1))
    ELSE s

Trim(s) == TrimEnd(TrimStart(s))

Bodies == UNION {[1..n -> Chars] : n \in 0..MaxBody}

-----------------------------------------------------------------------------
(* SystemInfo::get_public_ip *)

Services == <<"https://api.ipify.org", "https://ifconfig.me/ip", "https://icanhazip.com">>

\* What one request can do: send() fails (a timeout after the client's timeout, or
\* a connection error), or a response arrives with some status, whose body then
\* reads as text or fails to.
SendFailures == {[kind |-> k, status |-> 0, textOk |-> FALSE, body |-> <<>>] :
                    k \in {"timeout", "error"}}

Responses(bodies) ==
    {[kind |-> "response", status |-> st, textOk |-> FALSE, body |-> <<>>] :
        st \in {200, 503}}
    \cup {[kind |-> "response", status |-> st, textOk |-> TRUE, body |-> b] :
            st \in {200, 503}, b \in bodies}

Outcomes == SendFailures \cup Responses(Bodies)

\* The loop state of one call: the next service to try, the services contacted and
\* the outcomes seen so far, and the returned value once the call has returned.
IpCall == [i |-> 1, contacted |-> <<>>, seen |-> <<>>, done |-> FALSE, ret |-> None]

\* Mutant of ServiceStep: a successful service does not end the loop.
ServiceStep_KeepsGoing(st, out) ==
    LET asked == [st EXCEPT !.contacted = Append(@, Services[st.i]),
                            !.seen = Append(@, out)]
        text == Trim(out.body)
    IN  IF out.kind = "response" /\ out.textOk /\ text # <<>>
        THEN [asked EXCEPT !.done = (st.i = Len(Services)), !.ret = Some(text),
                           !.i = @ + 1]
        ELSE [asked EXCEPT !.i = @ + 1]

\* Mutant of ServiceStep: the body is returned without the is_empty test.
ServiceStep_NoEmptyCheck(st, out) ==
    LET asked == [st EXCEPT !.contacted = Append(@, Services[st.i]),
                            !.seen = Append(@, out)]
        text == Trim(out.body)
    IN  IF out.kind = "response" /\ out.textOk
        THEN [asked EXCEPT !.done = TRUE, !.ret = Some(text)]
        ELSE [asked EXCEPT !.i = @ + 1]

\* Mutant of ServiceStep: a response whose status is not a success counts as a
\* failed service (error_for_status).
ServiceStep_ChecksStatus(st, out) ==
    LET asked == [st EXCEPT !.contacted = Append(@, Services[st.i]),
                            !.seen = Append(@, out)]
        text == Trim(out.body)
    IN  IF out.kind = "response" /\ out.status = 200 /\ out.textOk /\ text # <<>>
        THEN [asked EXCEPT !.done = TRUE, !.ret = Some(text)]
        ELSE [asked EXCEPT !.i = @ + 1]

\* One iteration of `for service in &services`, the request ending as `out`.
ServiceStep(st, out) ==
    LET asked == [st EXCEPT !.contacted = Append(@, Services[st.i]),
                            !.seen = Append(@, out)]
        text == Trim(out.body)
    IN  IF out.kind = "response" /\ out.textOk /\ text # <<>>
        THEN [asked EXCEPT !.done = TRUE, !.ret = Some(text)]
        ELSE [asked EXCEPT !.i = @ + 1]

\* The loop ran out of services: `None`.
ServicesExhausted(st) == [st EXCEPT !.done = TRUE, !.ret = None]

RECURSIVE RunServices(_, _)
RunServices(st, outs) ==
    IF st.done THEN st
    ELSE IF st.i > Len(Services) THEN ServicesExhausted(st)
    ELSE RunServices(ServiceStep(st, outs[st.i]), outs)

get_public_ip(outs) == RunServices(IpCall, outs).ret

-----------------------------------------------------------------------------
(* SystemInfo::benchmark_bandwidth *)

\* The download: send() fails, or a response arrives whose body reads (`bytes`
\* bytes, `micros` microseconds after `start`) or fails to.
Downloads ==
    {[kind |-> k, bytesOk |-> FALSE, bytes |-> 0, micros |-> 0] :
        k \in {"timeout", "error"}}
    \cup {[kind |-> "response", bytesOk |-> FALSE, bytes |-> 0, micros |-> 0]}
    \cup {[kind |-> "response", bytesOk |-> TRUE, bytes |-> n, micros |-> t] :
            n \in 0..MaxBytes, t \in 0..MaxMicros}

\* (bytes_count * 8.0) / (duration_secs * 1_000_000.0), as the exact fraction
\* num / den: duration_secs * 1_000_000 is the duration in microseconds.
Mbps(bytes, micros) == [num |-> bytes * 8, den |-> micros]

benchmark_bandwidth(dl) ==
    IF dl.kind = "response"
    THEN IF dl.bytesOk /\ dl.micros > 0
         THEN Some(Mbps(dl.bytes, dl.micros))
         ELSE None
    ELSE None

\* The state of one call: not yet made, or made with this download and this result.
BwCall == [done |-> FALSE, dl |-> [kind |-> "", bytesOk |-> FALSE, bytes |-> 0, micros |-> 0],
           ret |-> None]

-----------------------------------------------------------------------------
(* SystemInfo::get_local_ip and SystemInfo::collect *)

LocalIpResults == {[ok |-> FALSE, addr |-> <<>>], [ok |-> TRUE, addr |-> <<"1">>]}

get_local_ip(r) == IF r.ok THEN Some(r.addr) ELSE None

HostReads == {"metrics"}

\* The probe outcomes the interactive model draws from on each collect: every way
\* a probe can fail, and one way it can succeed.
AppOutcomes == SendFailures \cup Responses({<<>>, <<" ">>, <<"1", " ">>})
AppDownloads == {d \in Downloads : ~d.bytesOk \/ (d.bytes = 1 /\ d.micros <= 1)}

collect(host, lo, outs, dl) ==
    [host |-> host,
     network_details |-> [local_ip |-> get_local_ip(lo),
                          public_ip |-> get_public_ip(outs),
                          bandwidth_mbps |-> benchmark_bandwidth(dl)]]

\* Every Snapshot one collect can return in the interactive model.
Snapshots ==
    {collect(h, lo, outs, dl) :
        h \in HostReads, lo \in LocalIpResults,
        outs \in [1..Len(Services) -> AppOutcomes], dl \in AppDownloads}

-----------------------------------------------------------------------------
(* f64 arithmetic, as far as the percentages need it: a positive f64 is held as *)
(* [m, e], m its 53 significant bits from the most significant one and e the    *)
(* exponent of the last bit; every operation rounds to nearest, ties to even    *)

F64_MANTISSA == 53

Front(seq) == SubSeq(seq, 1, Len(seq) - 1)
Repeat(x, n) == [i \in 1..n |-> x]

RECURSIVE BitsToInt(_)
BitsToInt(bits) ==
    IF bits = <<>> THEN 0 ELSE 2 * BitsToInt(Front(bits)) + bits[Len(bits)]

RECURSIVE IntToBits(_)
IntToBits(n) == IF n = 0 THEN <<>> ELSE Append(IntToBits(n \div 2), n % 2)

RECURSIVE Increment(_)
Increment(bits) ==
    IF bits = <<>> THEN <<1>>
    ELSE IF bits[Len(bits)] = 0 THEN Append(Front(bits), 1)
    ELSE Append(Increment(Front(bits)), 0)

\* The nearest f64 to the number written `bits` with last bit of exponent e, plus
\* a non-zero amount below the last bit when `sticky`.
F64Round(bits, e, sticky) ==
    LET kept == SubSeq(bits, 1, F64_MANTISSA)
        rest == SubSeq(bits, F64_MANTISSA + 1, Len(bits))
        half == rest # <<>> /\ rest[1] = 1
        more == sticky \/ \E i \in 2..Len(rest) : rest[i] = 1
        up == half /\ (more \/ kept[F64_MANTISSA] = 1)
        inc == Increment(kept)
    IN  IF ~up THEN [m |-> kept, e |-> e + Len(rest)]
        ELSE IF Len(inc) > F64_MANTISSA
             THEN [m |-> SubSeq(inc, 1, F64_MANTISSA), e |-> e + Len(rest) + 1]
             ELSE [m |-> inc, e |-> e + Len(rest)]

RECURSIVE ShiftToReach(_, _, _)
ShiftToReach(a, b, k) ==
    IF a >= b THEN [a |-> a, k |-> k] ELSE ShiftToReach(2 * a, b, k + 1)

\* Binary long division by b: q.bits grows by one quotient bit per step, q.rem is
\* the remainder, until n bits are there.
RECURSIVE LongDivision(_, _, _)
LongDivision(q, b, n) ==
    IF Len(q.bits) >= n THEN q
    ELSE LET d == IF 2 * q.rem >= b THEN 1 ELSE 0
         IN  LongDivision([bits |-> Append(q.bits, d), rem |-> 2 * q.rem - d * b], b, n)

\* a as f64 / b as f64, for integers 1 <= a <= b (both exact as f64).
F64Div(a, b) ==
    LET s == ShiftToReach(a, b, 0)
        q == LongDivision([bits |-> <<1>>, rem |-> s.a - b], b, F64_MANTISSA + 1)
    IN  F64Round(q.bits, (0 - s.k) - F64_MANTISSA, q.rem # 0)

\* Binary multiplication by k, from the last bit of p.bits on: p.out is the product
\* so far, p.carry what is carried into the next bit.
RECURSIVE MulBits(_, _)
MulBits(p, k) ==
    IF p.bits = <<>> THEN IntToBits(p.carry) \o p.out
    ELSE LET t == p.bits[Len(p.bits)] * k + p.carry
         IN  MulBits([bits |-> Front(p.bits), carry |-> t \div 2,
                      out |-> <<t % 2>> \o p.out], k)

\* x * k, for a small positive integer k (exact as f64).
F64Mul(x, k) ==
    F64Round(MulBits([bits |-> x.m, carry |-> 0, out |-> <<>>], k), x.e, FALSE)

\* `as u32` of a positive f64 below 2^32: the integer part.
F64Trunc(x) ==
    LET n == Len(x.m) + x.e
    IN  IF n <= 0 THEN 0 ELSE BitsToInt(SubSeq(x.m, 1, n))

-----------------------------------------------------------------------------
(* SystemInfo::format_bytes; a byte count is handed over in binary, from the most *)
(* significant bit, so that the whole of u64 is within reach                      *)

BYTES_PER_UNIT == 1024
UNITS == <<"B", "KB", "MB", "GB", "TB">>

RECURSIVE Log2(_)
Log2(n) == IF n <= 1 THEN 0 ELSE 1 + Log2(n \div 2)

F64Zero == [m |-> Repeat(0, F64_MANTISSA), e |-> 0]

RECURSIVE StripZeros(_)
StripZeros(bits) ==
    IF bits # <<>> /\ bits[1] = 0 THEN StripZeros(Tail(bits)) ELSE bits

\* `bytes as f64`: exact up to 53 significant bits, rounded beyond.
F64FromBits(bits) ==
    LET b == StripZeros(bits)
        pad == IF Len(b) < F64_MANTISSA THEN F64_MANTISSA - Len(b) ELSE 0
    IN  IF b = <<>> THEN F64Zero ELSE F64Round(b \o Repeat(0, pad), 0 - pad, FALSE)

\* x >= n and x > n, for n a power of two.
F64AtLeast(x, n) == x.m[1] = 1 /\ Len(x.m) + x.e - 1 >= Log2(n)
F64Above(x, n) ==
    /\ F64AtLeast(x, n)
    /\ \/ Len(x.m) + x.e - 1 > Log2(n)
       \/ \E i \in 2..Len(x.m) : x.m[i] = 1

\* x / n, for n a power of two: exact.
F64DivPow2(x, n) == [m |-> x.m, e |-> x.e - Log2(n)]

\* Mutant of format_bytes_loop: the loop goes on while size > 1024.
RECURSIVE format_bytes_loop_Above(_, _)
format_bytes_loop_Above(size, unit_index) ==
    IF F64Above(size, BYTES_PER_UNIT) /\ unit_index < Len(UNITS) - 1
    THEN format_bytes_loop_Above(F64DivPow2(size, BYTES_PER_UNIT), unit_index + 1)
    ELSE [size |-> size, unit_index |-> unit_index]

\* The while loop; unit_index counts from 0.
RECURSIVE format_bytes_loop(_, _)
format_bytes_loop(size, unit_index) ==
    IF F64AtLeast(size, BYTES_PER_UNIT) /\ unit_index < Len(UNITS) - 1
    THEN format_bytes_loop(F64DivPow2(size, BYTES_PER_UNIT), unit_index + 1)
    ELSE [size |-> size, unit_index |-> unit_index]

\* "{:.2}" of a non-negative f64 below 2^24: the exact value in hundredths, rounded
\* to nearest, ties to even.
F64Fixed2(x) ==
    LET p == MulBits([bits |-> x.m, carry |-> 0, out |-> <<>>], 100)
        n == Len(p) + x.e
        whole == IF n <= 0 THEN 0 ELSE BitsToInt(SubSeq(p, 1, n))
        frac == IF n <= 0 THEN <<>> ELSE SubSeq(p, n + 1, Len(p))
        half == IF n = 0 THEN TRUE ELSE frac # <<>> /\ frac[1] = 1
        more == IF n = 0 THEN \E i \in 2..Len(p) : p[i] = 1
                ELSE \E i \in 2..Len(frac) : frac[i] = 1
        up == n >= 0 /\ half /\ (more \/ whole % 2 = 1)
    IN  IF x.m[1] = 0 THEN 0 ELSE whole + (IF up THEN 1 ELSE 0)

\* format_bytes of the count written `bits`: "{:.2} {}", the number in hundredths
\* and the unit.
format_bytes_bits(bits) ==
    LET scaled == format_bytes_loop(F64FromBits(bits), 0)
    IN  [hundredths |-> F64Fixed2(scaled.size), unit |-> UNITS[scaled.unit_index + 1]]

format_bytes(bytes) == format_bytes_bits(IntToBits(bytes))

\* The byte counts format_bytes is applied to, written in base 1024 from the most
\* significant digit, without leading zeros (<<>> is 0, <<1, 512>> is 1536).
DigitChoices == {0, 1, 128, 512, 1023}
ByteCounts ==
    {<<>>} \cup UNION {{d \in [1..n -> DigitChoices] : d[1] # 0} : n \in 1..MaxDigits}

Bits10(d) == [i \in 1..10 |-> (d \div 2^(10 - i)) % 2]

RECURSIVE DigitsToBits(_)
DigitsToBits(digits) ==
    IF digits = <<>> THEN <<>> ELSE Bits10(Head(digits)) \o DigitsToBits(Tail(digits))

\* "{:.2}" of the fraction num / den: in hundredths, rounded to nearest, ties to even.
Fixed2(num, den) ==
    LET q == (num * 100) \div den
        r == (num * 100) % den
    IN  IF 2 * r > den \/ (2 * r = den /\ q % 2 = 1) THEN q + 1 ELSE q

-----------------------------------------------------------------------------
(* SystemInfo::format_uptime: the text is the sequence of its "{}<unit>" parts, *)
(* which the format strings join with single spaces                             *)

Part(value, unit) == [value |-> value, unit |-> unit]

\* Mutant of format_uptime: a unit whose value is zero is left out, seconds excepted.
format_uptime_SkipsZero(seconds) ==
    LET days == seconds \div 86400
        hours == (seconds % 86400) \div 3600
        minutes == (seconds % 3600) \div 60
        secs == seconds % 60
        NonZero(part) == part.value > 0
    IN  Append(SelectSeq(<<Part(days, "d"), Part(hours, "h"), Part(minutes, "m")>>, NonZero),
               Part(secs, "s"))

format_uptime(seconds) ==
    LET days == seconds \div 86400
        hours == (seconds % 86400) \div 3600
        minutes == (seconds % 3600) \div 60
        secs == seconds % 60
    IN  IF days > 0
        THEN <<Part(days, "d"), Part(hours, "h"), Part(minutes, "m"), Part(secs, "s")>>
        ELSE IF hours > 0
        THEN <<Part(hours, "h"), Part(minutes, "m"), Part(secs, "s")>>
        ELSE IF minutes > 0
        THEN <<Part(minutes, "m"), Part(secs, "s")>>
        ELSE <<Part(secs, "s")>>

\* The uptimes format_uptime is applied to: around the turn of each unit.
Uptimes ==
    {d * 86400 + h * 3600 + m * 60 + sec :
        d \in 0..MaxDays, h \in {0, 1, 23}, m \in {0, 1, 59}, sec \in {0, 1, 30, 59}}

-----------------------------------------------------------------------------
(* The usage percentage and App::create_progress_bar *)

PROGRESS_BAR_WIDTH == 50

\* (used as f64 / total as f64 * 100.0) as u32, 0 when total is 0; used <= total.
usage_percent(used, total) ==
    IF total > 0
    THEN IF used = 0 THEN 0 ELSE F64Trunc(F64Mul(F64Div(used, total), 100))
    ELSE 0

\* What a usize subtraction that would go below zero ends in: a panic, at the
\* subtraction with overflow checks on, at the repeat of the wrapped count without.
Panic == <<"panic">>

\* The two glyphs are written "filled" and "empty".
create_progress_bar(percent) ==
    LET filled == percent \div 2
        empty == PROGRESS_BAR_WIDTH - filled
    IN  IF empty < 0 THEN Panic ELSE Repeat("filled", filled) \o Repeat("empty", empty)

\* No helper called yet.
NoCall == [fn |-> "none"]

-----------------------------------------------------------------------------
(* The subtractions of the renderers: render_overview, render_memory, render_disks *)

MaxMem == 2
MaxSpace == 2
MaxDisks == 2

\* The outcomes of a u64 subtraction: the difference, a panic, or, below zero in a
\* build without overflow checks, 2^64 less the shortfall, which is beyond the
\* integers of the checker and kept as a token.
Difference(n) == [kind |-> "value", value |-> n]
Overflowed == [kind |-> "panic", value |-> 0]
Wrapped == [kind |-> "wrapped", value |-> 0]

\* u32::MAX halved, the filled count the bar computes from a percentage that
\* saturated the `as u32` cast.
SATURATED_FILLED == 2147483647

\* What a renderer ends in: a panic, or the values its lines show.
RenderPanic == [panicked |-> TRUE]
Rendered(lines) == [panicked |-> FALSE, lines |-> lines]

\* a - b on u64: with overflow checks (a debug build) a panic below zero, without
\* them (a release build) the wrapped difference.
Sub(a, b, overflow_checks) ==
    IF a >= b THEN Difference(a - b) ELSE IF overflow_checks THEN Overflowed ELSE Wrapped

\* a.saturating_sub(b)
saturating_sub(a, b) == IF a >= b THEN a - b ELSE 0

\* The memory fields of SystemInfo, within the provider's contract used <= total.
MemoryInfos ==
    {[total_memory |-> tm, used_memory |-> um, total_swap |-> ts, used_swap |-> us] :
        tm \in 0..MaxMem, um \in 0..MaxMem, ts \in 0..MaxMem, us \in 0..MaxMem}

MemoryContract(info) ==
    /\ info.used_memory <= info.total_memory
    /\ info.used_swap <= info.total_swap

\* DiskInfo, the two fields the renderer computes with.
DiskInfos == [total_space : 0..MaxSpace, available_space : 0..MaxSpace]
DiskLists == UNION {[1..n -> DiskInfos] : n \in 0..MaxDisks}

\* render_overview: the "Free Memory" line, the one line that computes.
render_overview(info, overflow_checks) ==
    LET free == Sub(info.total_memory, info.used_memory, overflow_checks)
    IN  IF free = Overflowed THEN RenderPanic ELSE Rendered([free_memory |-> free])

\* render_memory, for an info within MemoryContract.
render_memory(info, overflow_checks) ==
    LET free_mem == Sub(info.total_memory, info.used_memory, overflow_checks)
        mem_usage_percent == usage_percent(info.used_memory, info.total_memory)
        free_swap == saturating_sub(info.total_swap, info.used_swap)
        swap_usage_percent == usage_percent(info.used_swap, info.total_swap)
        mem_bar == create_progress_bar(mem_usage_percent)
        swap_bar == create_progress_bar(swap_usage_percent)
    IN  IF free_mem = Overflowed \/ mem_bar = Panic \/ swap_bar = Panic
        THEN RenderPanic
        ELSE Rendered([free_mem |-> free_mem, mem_usage_percent |-> mem_usage_percent,
                       mem_bar |-> mem_bar, free_swap |-> free_swap,
                       swap_usage_percent |-> swap_usage_percent,
                       swap_bar |-> swap_bar])

\* The bar of a disk whose used_space wrapped: the wrapped count is at least
\* 2^64 - MaxSpace, its quotient by a total of at most MaxSpace times 100 is beyond
\* u32 and the cast saturates, so that filled is SATURATED_FILLED.
wrapped_bar ==
    IF PROGRESS_BAR_WIDTH - SATURATED_FILLED < 0 THEN Panic ELSE <<>>

\* One turn of the loop of render_disks.
render_disk(disk, overflow_checks) ==
    LET used_space == Sub(disk.total_space, disk.available_space, overflow_checks)
        percent == IF used_space = Wrapped THEN 0
                   ELSE usage_percent(used_space.value, disk.total_space)
        bar == IF used_space = Wrapped /\ disk.total_space > 0
               THEN wrapped_bar
               ELSE create_progress_bar(percent)
    IN  IF used_space = Overflowed \/ bar = Panic
        THEN RenderPanic
        ELSE Rendered([used_space |-> used_space, usage_percent |-> percent, bar |-> bar])

\* render_disks: the entries in order; the first panic ends the rendering.
render_disks(disks, overflow_checks) ==
    IF \E i \in 1..Len(disks) : render_disk(disks[i], overflow_checks).panicked
    THEN RenderPanic
    ELSE Rendered([i \in 1..Len(disks) |-> render_disk(disks[i], overflow_checks).lines])

-----------------------------------------------------------------------------
(* The Network views: App::render_network (tui) and print_network_info (cli) *)

\* NetworkInfo, without the ip_address neither view reads.
InterfaceNames == {"lo", "eth0"}
NetworkInfos ==
    [interface_name : InterfaceNames,
     received_bytes : 0..MaxCounter,
     transmitted_bytes : 0..MaxCounter]

NetworkLists == UNION {[1..n -> NetworkInfos] : n \in 0..MaxIfaces}

\* The fields of SystemInfo the Network views are built from.
RenderInfos ==
    {[networks |-> ns, network_details |-> s.network_details] :
        ns \in NetworkLists, s \in Snapshots}

\* One line of a view: its fixed text, and the value formatted into it under the
\* name of what it shows. Box-drawing characters and emoji of the source's
\* literals are left out of the texts.
Line(text) == [text |-> text]

\* The lines render_network pushes for the interface at index idx (from 0).
InterfaceItems(idx, network) ==
    << [text |-> "Interface", index |-> idx + 1],
       [text |-> "Name:       ", name |-> network.interface_name],
       [text |-> "Received:   ", bytes |-> format_bytes(network.received_bytes)],
       [text |-> "Transmitted: ", bytes |-> format_bytes(network.transmitted_bytes)],
       [text |-> "Total:      ",
        bytes |-> format_bytes(network.received_bytes + network.transmitted_bytes)],
       Line("") >>

RECURSIVE InterfaceLoop(_, _, _)
InterfaceLoop(networks, idx, items) ==
    IF idx >= Len(networks)
    THEN items
    ELSE InterfaceLoop(networks, idx + 1,
                       items \o InterfaceItems(idx, networks[idx + 1]))

\* App::render_network: the items of the list it hands to the frame.
render_network(info) ==
    LET items == InterfaceLoop(info.networks, 0,
                               <<Line("Network Interfaces:"), Line("")>>)
    IN  IF info.networks = <<>>
        THEN Append(items, Line("No network interfaces found."))
        ELSE items

\* What a view puts on the line of an optional field: its value, or the placeholder.
Shown(opt) == IF opt.some THEN [value |-> opt.val] ELSE [placeholder |-> "Not available"]

\* "{:.2} Mbps": the estimate in hundredths.
ShownMbps(opt) ==
    IF opt.some
    THEN [value |-> Fixed2(opt.val.num, opt.val.den)]
    ELSE [placeholder |-> "Not available"]

\* The lines print_network_info prints for the interface at index idx (from 0).
PrintedInterface(idx, network) ==
    << [text |-> "Interface : ", index |-> idx + 1, name |-> network.interface_name],
       [text |-> "  Received:       ", bytes |-> format_bytes(network.received_bytes)],
       [text |-> "  Transmitted:    ", bytes |-> format_bytes(network.transmitted_bytes)],
       [text |-> "  Total:          ",
        bytes |-> format_bytes(network.received_bytes + network.transmitted_bytes)],
       Line("") >>

RECURSIVE PrintedLoop(_, _, _)
PrintedLoop(networks, idx, lines) ==
    IF idx >= Len(networks)
    THEN lines
    ELSE PrintedLoop(networks, idx + 1,
                     lines \o PrintedInterface(idx, networks[idx + 1]))

\* print_network_info: the lines it prints, from the NETWORK DETAILS header on.
print_network_info(info) ==
    LET details ==
            << Line("NETWORK DETAILS"),
               [text |-> "Local IP:        ", local_ip |-> Shown(info.network_details.local_ip)],
               [text |-> "Public IP:       ", public_ip |-> Shown(info.network_details.public_ip)],
               [text |-> "Bandwidth:       ",
                bandwidth_mbps |-> ShownMbps(info.network_details.bandwidth_mbps)],
               Line("") >>
    IN  IF info.networks = <<>>
        THEN Append(details, Line("No network interfaces available."))
        ELSE PrintedLoop(info.networks, 0, Append(details, Line("NETWORK INTERFACES")))

\* No view built yet.
NoView ==
    [surface |-> "none",
     info |-> [networks |-> <<>>,
               network_details |-> [local_ip |-> None, public_ip |-> None,
                                    bandwidth_mbps |-> None]],
     items |-> <<>>]

-----------------------------------------------------------------------------
(* SystemInfo::collect, step by step *)

IP_TIMEOUT_SECS == 5
BANDWIDTH_TIMEOUT_SECS == 10
test_urls == <<"https://speed.cloudflare.com/__down?bytes=1000000">>

\* Mutant of RequestSeconds: the client is built without `.timeout(..)` and runs
\* with the library's default of 30 seconds.
RequestSeconds_DefaultTimeout(out, timeout) ==
    IF out.kind = "timeout" THEN {30} ELSE {0, 30}

\* How long a request that ended as `out` kept its caller, in whole seconds: the
\* client's timeout when it timed out, anything up to it otherwise.
RequestSeconds(out, timeout) == IF out.kind = "timeout" THEN {timeout} ELSE {0, timeout}

-----------------------------------------------------------------------------
(* The interactive application: tui/mod.rs *)

\* The fields of App before App::new has built it.
Uninit == "uninit"
NoSnapshot == [host |-> Uninit]

Tabs == {"Overview", "Memory", "Disks", "Network"}

Welcome == "Welcome to System Index! Press 'h' for help, 'q' to quit."
HelpText == "Keys: q=quit, r=refresh, 1=overview, 2=memory, 3=disks, 4=network"
Refreshed == "System information refreshed!"
\* Mutant of Showing: the message of the Disks arm is a copy of the Memory arm's.
Showing_CopyPaste(tab) ==
    CASE tab = "Overview" -> "Showing: Overview"
      [] tab = "Memory" -> "Showing: Memory"
      [] tab = "Disks" -> "Showing: Memory"
      [] tab = "Network" -> "Showing: Network"

Showing(tab) ==
    CASE tab = "Overview" -> "Showing: Overview"
      [] tab = "Memory" -> "Showing: Memory"
      [] tab = "Disks" -> "Showing: Disks"
      [] tab = "Network" -> "Showing: Network"

\* The events event::read can return: key events of any kind and code, and events
\* that are not key events.
KeyCodes == {"q", "h", "r", "1", "2", "3", "4", "Q", "H", "R", "5"}
Events ==
    {[type |-> "Key", kind |-> "Press", code |-> c] : c \in KeyCodes}
    \cup {[type |-> "Key", kind |-> "Release", code |-> "q"],
          [type |-> "Mouse", kind |-> "", code |-> ""]}
NoEvent == [type |-> "", kind |-> "", code |-> ""]

\* The scenario of the spec's section 8: refresh, select tab 3, quit.
ScenarioKeys == <<"r", "3", "q">>

Follow(pos, key) ==
    IF pos >= 0 /\ pos < Len(ScenarioKeys) /\ ScenarioKeys[pos + 1] = key
    THEN pos + 1
    ELSE -1

\* A terminal operation App::run attempted, and whether it succeeded.
Op(name, ok) == [op |-> name, ok |-> ok]

\* Dropping `terminal` when App::run returns early: Terminal's Drop shows the
\* cursor again if a draw hid it, and ignores a failure to.
DropTerminal == cursorHidden' \in {cursorHidden, FALSE}

\* App::refresh; `byTimer` only feeds the model's count of timer refreshes.
refresh(snapshot, byTimer) ==
    /\ collects < MaxCollects
    /\ system_info' = snapshot
    /\ elapsed' = 0
    /\ collects' = collects + 1
    /\ timerRefreshes' = IF byTimer THEN timerRefreshes + 1 ELSE timerRefreshes

\* Mutant of handle_input: selecting the tab that is already shown refreshes it.
handle_input_ReselectRefreshes(key) ==
    CASE key = "h" ->
            /\ status_message' = HelpText
            /\ UNCHANGED <<system_info, elapsed, current_tab, collects, timerRefreshes>>
      [] key = "r" ->
            /\ \E snapshot \in Snapshots : refresh(snapshot, FALSE)
            /\ status_message' = Refreshed
            /\ UNCHANGED current_tab
      [] key \in {"1", "2", "3", "4"} ->
            /\ current_tab' = (CASE key = "1" -> "Overview" [] key = "2" -> "Memory"
                                 [] key = "3" -> "Disks" [] key = "4" -> "Network")
            /\ status_message' = Showing(current_tab')
            /\ IF current_tab' = current_tab
               THEN \E snapshot \in Snapshots : refresh(snapshot, FALSE)
               ELSE UNCHANGED <<system_info, elapsed, collects, timerRefreshes>>
      [] OTHER ->
            UNCHANGED <<appVars, collects, timerRefreshes>>

\* Mutant of handle_input: 'h' also goes back to the Overview tab.
handle_input_HelpResetsTab(key) ==
    CASE key = "h" ->
            /\ status_message' = HelpText
            /\ current_tab' = "Overview"
            /\ UNCHANGED <<system_info, elapsed, collects, timerRefreshes>>
      [] key = "r" ->
            /\ \E snapshot \in Snapshots : refresh(snapshot, FALSE)
            /\ status_message' = Refreshed
            /\ UNCHANGED current_tab
      [] key \in {"1", "2", "3", "4"} ->
            /\ current_tab' = (CASE key = "1" -> "Overview" [] key = "2" -> "Memory"
                                 [] key = "3" -> "Disks" [] key = "4" -> "Network")
            /\ status_message' = Showing(current_tab')
            /\ UNCHANGED <<system_info, elapsed, collects, timerRefreshes>>
      [] OTHER ->
            UNCHANGED <<appVars, collects, timerRefreshes>>

\* Mutant of handle_input: 'r' sets the status message without refreshing.
handle_input_NoRefresh(key) ==
    CASE key = "h" ->
            /\ status_message' = HelpText
            /\ UNCHANGED <<system_info, elapsed, current_tab, collects, timerRefreshes>>
      [] key = "r" ->
            /\ status_message' = Refreshed
            /\ UNCHANGED <<system_info, elapsed, current_tab, collects, timerRefreshes>>
      [] key \in {"1", "2", "3", "4"} ->
            /\ current_tab' = (CASE key = "1" -> "Overview" [] key = "2" -> "Memory"
                                 [] key = "3" -> "Disks" [] key = "4" -> "Network")
            /\ status_message' = Showing(current_tab')
            /\ UNCHANGED <<system_info, elapsed, collects, timerRefreshes>>
      [] OTHER ->
            UNCHANGED <<appVars, collects, timerRefreshes>>

\* App::handle_input: the state change of a key press; the returned bool is
\* HandleInputQuits.
handle_input(key) ==
    CASE key = "q" ->
            UNCHANGED <<appVars, collects, timerRefreshes>>
      [] key = "h" ->
            /\ status_message' = HelpText
            /\ UNCHANGED <<system_info, elapsed, current_tab, collects, timerRefreshes>>
      [] key = "r" ->
            /\ \E snapshot \in Snapshots : refresh(snapshot, FALSE)
            /\ status_message' = Refreshed
            /\ UNCHANGED current_tab
      [] key = "1" ->
            /\ current_tab' = "Overview"
            /\ status_message' = Showing("Overview")
            /\ UNCHANGED <<system_info, elapsed, collects, timerRefreshes>>
      [] key = "2" ->
            /\ current_tab' = "Memory"
            /\ status_message' = Showing("Memory")
            /\ UNCHANGED <<system_info, elapsed, collects, timerRefreshes>>
      [] key = "3" ->
            /\ current_tab' = "Disks"
            /\ status_message' = Showing("Disks")
            /\ UNCHANGED <<system_info, elapsed, collects, timerRefreshes>>
      [] key = "4" ->
            /\ current_tab' = "Network"
            /\ status_message' = Showing("Network")
            /\ UNCHANGED <<system_info, elapsed, collects, timerRefreshes>>
      [] OTHER ->
            UNCHANGED <<appVars, collects, timerRefreshes>>

\* Mutant of HandleInputQuits: the quit key is matched without regard to case.
HandleInputQuits_AnyCase(key) == key \in {"q", "Q"}

\* Mutant of HandleInputQuits: 'q' does not end the loop.
HandleInputQuits_Never(key) == FALSE

\* Mutant of HandleInputQuits: a refresh whose public-IP probe failed ends the loop.
HandleInputQuits_OnFailedProbe(key) ==
    key = "q" \/ (key = "r" /\ ~system_info'.network_details.public_ip.some)

HandleInputQuits(key) == key = "q"

\* Mutant of AppNew: construction leaves the snapshot empty and the first collect
\* to the first refresh inside the loop.
AppNew_Deferred ==
    /\ pc = "new"
    /\ system_info' = NoSnapshot
    /\ elapsed' = 0
    /\ status_message' = Welcome
    /\ current_tab' = "Overview"
    /\ pc' = "enable_raw_mode"
    /\ UNCHANGED <<termVars, ops, loopResult, runResult, pending, collects,
                   timerRefreshes, scenario, drawn, probeVars,
                   renderVars>>

\* main: App::new(), before app.run().
AppNew ==
    /\ pc = "new"
    /\ \E snapshot \in Snapshots : system_info' = snapshot
    /\ collects' = collects + 1
    /\ elapsed' = 0
    /\ status_message' = Welcome
    /\ current_tab' = "Overview"
    /\ pc' = "enable_raw_mode"
    /\ UNCHANGED <<termVars, ops, loopResult, runResult, pending, timerRefreshes,
                   scenario, drawn, probeVars,
                   renderVars>>

\* App::run, the setup: each `?` returns the error at once.
EnableRawMode ==
    /\ pc = "enable_raw_mode"
    /\ \E ok \in BOOLEAN :
        /\ ops' = Append(ops, Op("enable_raw_mode", ok))
        /\ IF ok
           THEN rawMode' = TRUE /\ pc' = "EnterAlternateScreen" /\ UNCHANGED runResult
           ELSE UNCHANGED rawMode /\ pc' = "returned" /\ runResult' = "enable_raw_mode"
    /\ UNCHANGED <<appVars, altScreen, mouseCapture, cursorHidden, loopResult, pending,
                   collects, timerRefreshes, scenario, drawn, probeVars,
                   renderVars>>

EnterAlternateScreen ==
    /\ pc = "EnterAlternateScreen"
    /\ \E ok \in BOOLEAN :
        /\ ops' = Append(ops, Op("EnterAlternateScreen", ok))
        /\ IF ok
           THEN altScreen' = TRUE /\ pc' = "EnableMouseCapture" /\ UNCHANGED runResult
           ELSE UNCHANGED altScreen /\ pc' = "returned"
                /\ runResult' = "EnterAlternateScreen"
    /\ UNCHANGED <<appVars, rawMode, mouseCapture, cursorHidden, loopResult, pending,
                   collects, timerRefreshes, scenario, drawn, probeVars,
                   renderVars>>

EnableMouseCapture ==
    /\ pc = "EnableMouseCapture"
    /\ \E ok \in BOOLEAN :
        /\ ops' = Append(ops, Op("EnableMouseCapture", ok))
        /\ IF ok
           THEN mouseCapture' = TRUE /\ pc' = "Terminal::new" /\ UNCHANGED runResult
           ELSE UNCHANGED mouseCapture /\ pc' = "returned"
                /\ runResult' = "EnableMouseCapture"
    /\ UNCHANGED <<appVars, rawMode, altScreen, cursorHidden, loopResult, pending,
                   collects, timerRefreshes, scenario, drawn, probeVars,
                   renderVars>>

TerminalNew ==
    /\ pc = "Terminal::new"
    /\ \E ok \in BOOLEAN :
        /\ ops' = Append(ops, Op("Terminal::new", ok))
        /\ IF ok
           THEN pc' = "draw" /\ UNCHANGED runResult
           ELSE pc' = "returned" /\ runResult' = "Terminal::new"
    /\ UNCHANGED <<appVars, termVars, loopResult, pending, collects, timerRefreshes,
                   scenario, drawn, probeVars,
                   renderVars>>

\* Mutant of TimerCheck: the refresh fires as soon as 2 seconds have elapsed.
TimerCheck_AtLeast ==
    /\ pc = "timer"
    /\ IF elapsed >= REFRESH_SECS
       THEN /\ \E snapshot \in Snapshots : refresh(snapshot, TRUE)
            /\ UNCHANGED <<status_message, current_tab>>
       ELSE UNCHANGED <<appVars, collects, timerRefreshes>>
    /\ pc' = "poll"
    /\ UNCHANGED <<termVars, ops, loopResult, runResult, pending, scenario, drawn,
                   probeVars,
                   renderVars>>

\* run_app, one step per operation of the loop body. A draw that fails may
\* already have hidden the cursor.
LoopPcs == {"draw", "timer", "poll", "read"}

\* Mutant of Draw: the error of the loop body leaves App::run at once, as if
\* run_app's result were returned with `?`.
Draw_ErrorPropagates ==
    /\ pc = "draw"
    /\ \E ok \in BOOLEAN :
        IF ok
        THEN /\ cursorHidden' = TRUE
             /\ drawn' = system_info
             /\ pc' = "timer"
             /\ UNCHANGED <<loopResult, runResult>>
        ELSE /\ loopResult' = "draw"
             /\ runResult' = "draw"
             /\ pc' = "returned"
             /\ cursorHidden' \in {cursorHidden, TRUE}
             /\ UNCHANGED drawn
    /\ UNCHANGED <<appVars, rawMode, altScreen, mouseCapture, ops, pending,
                   collects, timerRefreshes, scenario, probeVars,
                   renderVars>>

\* Mutant of Draw: the frame is built once and shown again on every later draw.
Draw_Cached ==
    /\ pc = "draw"
    /\ \E ok \in BOOLEAN :
        IF ok
        THEN /\ cursorHidden' = TRUE
             /\ drawn' = (IF drawn = NoSnapshot THEN system_info ELSE drawn)
             /\ pc' = "timer"
             /\ UNCHANGED loopResult
        ELSE /\ loopResult' = "draw"
             /\ pc' = "disable_raw_mode"
             /\ cursorHidden' \in {cursorHidden, TRUE}
             /\ UNCHANGED drawn
    /\ UNCHANGED <<appVars, rawMode, altScreen, mouseCapture, ops, runResult, pending,
                   collects, timerRefreshes, scenario, probeVars,
                   renderVars>>

Draw ==
    /\ pc = "draw"
    /\ \E ok \in BOOLEAN :
        IF ok
        THEN /\ cursorHidden' = TRUE
             /\ drawn' = system_info
             /\ pc' = "timer"
             /\ UNCHANGED loopResult
        ELSE /\ loopResult' = "draw"
             /\ pc' = "disable_raw_mode"
             /\ cursorHidden' \in {cursorHidden, TRUE}
             /\ UNCHANGED drawn
    /\ UNCHANGED <<appVars, rawMode, altScreen, mouseCapture, ops, runResult, pending,
                   collects, timerRefreshes, scenario, probeVars,
                   renderVars>>

TimerCheck ==
    /\ pc = "timer"
    /\ IF elapsed > REFRESH_SECS
       THEN /\ \E snapshot \in Snapshots : refresh(snapshot, TRUE)
            /\ UNCHANGED <<status_message, current_tab>>
       ELSE UNCHANGED <<appVars, collects, timerRefreshes>>
    /\ pc' = "poll"
    /\ UNCHANGED <<termVars, ops, loopResult, runResult, pending, scenario, drawn,
                   probeVars,
                   renderVars>>

\* A loop that goes back to the timer check after an idle poll, without drawing.
Poll_SkipsDraw ==
    /\ pc = "poll"
    /\ \/ /\ loopResult' = "event::poll"
          /\ pc' = "disable_raw_mode"
          /\ UNCHANGED pending
       \/ /\ pc' = "timer"
          /\ UNCHANGED <<loopResult, pending>>
       \/ /\ \E e \in Events : pending' = e
          /\ pc' = "read"
          /\ UNCHANGED loopResult
    /\ UNCHANGED <<appVars, termVars, ops, runResult, collects, timerRefreshes, scenario,
                   drawn, probeVars,
                   renderVars>>

Poll ==
    /\ pc = "poll"
    /\ \/ /\ loopResult' = "event::poll"
          /\ pc' = "disable_raw_mode"
          /\ UNCHANGED pending
       \/ /\ pc' = "draw"
          /\ UNCHANGED <<loopResult, pending>>
       \/ /\ \E e \in Events : pending' = e
          /\ pc' = "read"
          /\ UNCHANGED loopResult
    /\ UNCHANGED <<appVars, termVars, ops, runResult, collects, timerRefreshes, scenario,
                   drawn, probeVars,
                   renderVars>>

Read ==
    /\ pc = "read"
    /\ pending' = NoEvent
    /\ \/ /\ loopResult' = "event::read"
          /\ pc' = "disable_raw_mode"
          /\ UNCHANGED <<appVars, collects, timerRefreshes, scenario>>
       \/ /\ pending.type = "Key" /\ pending.kind = "Press"
          /\ handle_input(pending.code)
          /\ scenario' = Follow(scenario, pending.code)
          /\ IF HandleInputQuits(pending.code)
             THEN loopResult' = "Ok" /\ pc' = "disable_raw_mode"
             ELSE UNCHANGED loopResult /\ pc' = "draw"
       \/ /\ ~(pending.type = "Key" /\ pending.kind = "Press")
          /\ pc' = "draw"
          /\ UNCHANGED <<appVars, collects, timerRefreshes, scenario, loopResult>>
    /\ UNCHANGED <<termVars, ops, runResult, drawn, probeVars,
                   renderVars>>

\* Time passing while the loop runs.
Tick ==
    /\ pc \in LoopPcs
    /\ elapsed < MaxElapsed
    /\ elapsed + 1 > REFRESH_SECS => collects < MaxCollects
    /\ elapsed' = elapsed + 1
    /\ UNCHANGED <<pc, system_info, status_message, current_tab, termVars, ops,
                   loopResult, runResult, pending, collects, timerRefreshes, scenario,
                   drawn, probeVars,
                   renderVars>>

\* App::run, the restore: each `?` returns the error at once; `result` is returned
\* after the last step.
DisableRawMode ==
    /\ pc = "disable_raw_mode"
    /\ \E ok \in BOOLEAN :
        /\ ops' = Append(ops, Op("disable_raw_mode", ok))
        /\ IF ok
           THEN /\ rawMode' = FALSE
                /\ pc' = "LeaveAlternateScreen"
                /\ UNCHANGED <<runResult, cursorHidden>>
           ELSE /\ runResult' = "disable_raw_mode"
                /\ pc' = "returned"
                /\ DropTerminal
                /\ UNCHANGED rawMode
    /\ UNCHANGED <<appVars, altScreen, mouseCapture, loopResult, pending, collects,
                   timerRefreshes, scenario, drawn, probeVars,
                   renderVars>>

\* Mutant of LeaveAlternateScreen: a failure of the step is ignored and the
\* teardown goes on.
LeaveAlternateScreen_ErrorIgnored ==
    /\ pc = "LeaveAlternateScreen"
    /\ \E ok \in BOOLEAN :
        /\ ops' = Append(ops, Op("LeaveAlternateScreen", ok))
        /\ altScreen' = IF ok THEN FALSE ELSE altScreen
        /\ pc' = "DisableMouseCapture"
        /\ UNCHANGED <<runResult, cursorHidden>>
    /\ UNCHANGED <<appVars, rawMode, mouseCapture, loopResult, pending, collects,
                   timerRefreshes, scenario, drawn, probeVars,
                   renderVars>>

LeaveAlternateScreen ==
    /\ pc = "LeaveAlternateScreen"
    /\ \E ok \in BOOLEAN :
        /\ ops' = Append(ops, Op("LeaveAlternateScreen", ok))
        /\ IF ok
           THEN /\ altScreen' = FALSE
                /\ pc' = "DisableMouseCapture"
                /\ UNCHANGED <<runResult, cursorHidden>>
           ELSE /\ runResult' = "LeaveAlternateScreen"
                /\ pc' = "returned"
                /\ DropTerminal
                /\ UNCHANGED altScreen
    /\ UNCHANGED <<appVars, rawMode, mouseCapture, loopResult, pending, collects,
                   timerRefreshes, scenario, drawn, probeVars,
                   renderVars>>

DisableMouseCapture ==
    /\ pc = "DisableMouseCapture"
    /\ \E ok \in BOOLEAN :
        /\ ops' = Append(ops, Op("DisableMouseCapture", ok))
        /\ IF ok
           THEN /\ mouseCapture' = FALSE
                /\ pc' = "show_cursor"
                /\ UNCHANGED <<runResult, cursorHidden>>
           ELSE /\ runResult' = "DisableMouseCapture"
                /\ pc' = "returned"
                /\ DropTerminal
                /\ UNCHANGED mouseCapture
    /\ UNCHANGED <<appVars, rawMode, altScreen, loopResult, pending, collects,
                   timerRefreshes, scenario, drawn, probeVars,
                   renderVars>>

ShowCursor ==
    /\ pc = "show_cursor"
    /\ \E ok \in BOOLEAN :
        /\ ops' = Append(ops, Op("show_cursor", ok))
        /\ IF ok
           THEN /\ cursorHidden' = FALSE
                /\ runResult' = loopResult
           ELSE /\ runResult' = "show_cursor"
                /\ DropTerminal
    /\ pc' = "returned"
    /\ UNCHANGED <<appVars, rawMode, altScreen, mouseCapture, loopResult, pending,
                   collects, timerRefreshes, scenario, drawn, probeVars,
                   renderVars>>

-----------------------------------------------------------------------------
(* The specification of the interactive application *)

\* The state of one collect: where it is, the calls and requests it has made in
\* order, the seconds spent in requests so far, and what it has gathered.
CollectCall ==
    [pc |-> "host", calls |-> <<>>, stall |-> 0, host |-> Uninit, local_ip |-> None,
     ip |-> IpCall, public_ip |-> None, bandwidth_mbps |-> None, ret |-> NoSnapshot]

\* main: `app.run()?` then `Ok(())`; the process exits with 0 on Ok and 1 on Err.
exit_status == IF runResult = "Ok" THEN 0 ELSE 1

Init ==
    /\ pc = "new"
    /\ system_info = NoSnapshot
    /\ elapsed = 0
    /\ status_message = Uninit
    /\ current_tab = Uninit
    /\ rawMode = FALSE
    /\ altScreen = FALSE
    /\ mouseCapture = FALSE
    /\ cursorHidden = FALSE
    /\ ops = <<>>
    /\ loopResult = "none"
    /\ runResult = "none"
    /\ pending = NoEvent
    /\ collects = 0
    /\ timerRefreshes = 0
    /\ scenario = 0
    /\ drawn = NoSnapshot
    /\ ip = IpCall
    /\ bw = BwCall
    /\ network_view = NoView
    /\ call = NoCall
    /\ cx = CollectCall

Next ==
    \/ AppNew
    \/ EnableRawMode
    \/ EnterAlternateScreen
    \/ EnableMouseCapture
    \/ TerminalNew
    \/ Draw
    \/ TimerCheck
    \/ Poll
    \/ Read
    \/ Tick
    \/ DisableRawMode
    \/ LeaveAlternateScreen
    \/ DisableMouseCapture
    \/ ShowCursor

Spec == Init /\ [][Next]_vars

\* The steps of the program itself, the passing of time left out.
ProgramStep ==
    \/ AppNew
    \/ EnableRawMode
    \/ EnterAlternateScreen
    \/ EnableMouseCapture
    \/ TerminalNew
    \/ Draw
    \/ TimerCheck
    \/ Poll
    \/ Read
    \/ DisableRawMode
    \/ LeaveAlternateScreen
    \/ DisableMouseCapture
    \/ ShowCursor

\* The same behaviours, with a main thread that is never stopped for ever: every
\* call it makes returns (each request ends by its timeout at the latest, the poll
\* after its 100 ms).
SpecLive == Init /\ [][Next]_vars /\ WF_vars(ProgramStep)

-----------------------------------------------------------------------------
(* The specification of the network probes, one request per step *)

appAll == <<pc, appVars, termVars, ops, loopResult, runResult, pending, collects,
            timerRefreshes, scenario, drawn>>

\* get_public_ip: the next iteration of the loop over the services.
TryService ==
    /\ ~ip.done
    /\ ip.i <= Len(Services)
    /\ \E out \in Outcomes : ip' = ServiceStep(ip, out)
    /\ UNCHANGED <<appAll, bw, renderVars>>

\* get_public_ip: the loop is over, the function returns None.
ReturnNone ==
    /\ ~ip.done
    /\ ip.i > Len(Services)
    /\ ip' = ServicesExhausted(ip)
    /\ UNCHANGED <<appAll, bw, renderVars>>

\* benchmark_bandwidth: the one download and the value computed from it.
Download ==
    /\ ~bw.done
    /\ \E dl \in Downloads :
        bw' = [done |-> TRUE, dl |-> dl, ret |-> benchmark_bandwidth(dl)]
    /\ UNCHANGED <<appAll, ip, renderVars>>

NextProbe ==
    \/ TryService
    \/ ReturnNone
    \/ Download

SpecProbe == Init /\ [][NextProbe]_vars

-----------------------------------------------------------------------------
(* The specification of the Network views, one rendering per behaviour *)

\* App::ui on the Network tab: render_network of the App's SystemInfo.
RenderNetwork ==
    /\ network_view.surface = "none"
    /\ \E info \in RenderInfos :
        network_view' = [surface |-> "tui", info |-> info, items |-> render_network(info)]
    /\ UNCHANGED <<appAll, probeVars, call, cx>>

\* main, `network` command: print_network_info of a fresh SystemInfo.
PrintNetworkInfo ==
    /\ network_view.surface = "none"
    /\ \E info \in RenderInfos :
        network_view' = [surface |-> "cli", info |-> info,
                         items |-> print_network_info(info)]
    /\ UNCHANGED <<appAll, probeVars, call, cx>>

NextRender ==
    \/ RenderNetwork
    \/ PrintNetworkInfo

SpecRender == Init /\ [][NextRender]_vars

-----------------------------------------------------------------------------
(* The specification of the helpers, one call per behaviour *)

\* render_memory / render_disks: the percentage of one used / total pair and the
\* bar drawn from it.
UsageBar ==
    /\ call.fn = "none"
    /\ \E total \in 0..MaxTotal : \E used \in 0..total :
        call' = [fn |-> "usage_bar", used |-> used, total |-> total,
                 percent |-> usage_percent(used, total),
                 bar |-> create_progress_bar(usage_percent(used, total))]
    /\ UNCHANGED <<appAll, probeVars, network_view, cx>>

\* SystemInfo::format_bytes, on one byte count.
FormatBytes ==
    /\ call.fn = "none"
    /\ \E bytes \in ByteCounts :
        call' = [fn |-> "format_bytes", bytes |-> bytes,
                 ret |-> format_bytes_bits(DigitsToBits(bytes))]
    /\ UNCHANGED <<appAll, probeVars, network_view, cx>>

\* SystemInfo::format_uptime, on one uptime.
FormatUptime ==
    /\ call.fn = "none"
    /\ \E seconds \in Uptimes :
        call' = [fn |-> "format_uptime", seconds |-> seconds, ret |-> format_uptime(seconds)]
    /\ UNCHANGED <<appAll, probeVars, network_view, cx>>

\* render_overview on one Snapshot, in a build with or without overflow checks.
RenderOverview ==
    /\ call.fn = "none"
    /\ \E info \in MemoryInfos : \E overflow_checks \in BOOLEAN :
        /\ MemoryContract(info)
        /\ call' = [fn |-> "render_overview", info |-> info,
                    overflow_checks |-> overflow_checks,
                    ret |-> render_overview(info, overflow_checks)]
    /\ UNCHANGED <<appAll, probeVars, network_view, cx>>

\* render_memory on one Snapshot.
RenderMemory ==
    /\ call.fn = "none"
    /\ \E info \in MemoryInfos : \E overflow_checks \in BOOLEAN :
        /\ MemoryContract(info)
        /\ call' = [fn |-> "render_memory", info |-> info,
                    overflow_checks |-> overflow_checks,
                    ret |-> render_memory(info, overflow_checks)]
    /\ UNCHANGED <<appAll, probeVars, network_view, cx>>

\* render_disks on the disks of one Snapshot.
RenderDisks ==
    /\ call.fn = "none"
    /\ \E disks \in DiskLists : \E overflow_checks \in BOOLEAN :
        call' = [fn |-> "render_disks", disks |-> disks,
                 overflow_checks |-> overflow_checks,
                 ret |-> render_disks(disks, overflow_checks)]
    /\ UNCHANGED <<appAll, probeVars, network_view, cx>>

NextCalls ==
    \/ UsageBar
    \/ FormatBytes
    \/ FormatUptime
    \/ RenderOverview
    \/ RenderMemory
    \/ RenderDisks

SpecCalls == Init /\ [][NextCalls]_vars

-----------------------------------------------------------------------------
(* The specification of one collect *)

collectOther == <<appAll, probeVars, network_view, call>>

\* System::new_all() ... System::uptime(): the read of the host metrics.
CollectHost ==
    /\ cx.pc = "host"
    /\ \E h \in HostReads :
        cx' = [cx EXCEPT !.pc = "get_local_ip", !.host = h,
                         !.calls = Append(@, "host_metrics")]
    /\ UNCHANGED collectOther

\* local_ip: Self::get_local_ip().
CollectLocalIp ==
    /\ cx.pc = "get_local_ip"
    /\ \E lo \in LocalIpResults :
        cx' = [cx EXCEPT !.pc = "get_public_ip", !.local_ip = get_local_ip(lo),
                         !.calls = Append(@, "get_local_ip")]
    /\ UNCHANGED collectOther

\* public_ip: Self::get_public_ip() is entered.
CollectPublicIp ==
    /\ cx.pc = "get_public_ip"
    /\ cx' = [cx EXCEPT !.pc = "services", !.calls = Append(@, "get_public_ip")]
    /\ UNCHANGED collectOther

\* get_public_ip: the request to the next service.
CollectService ==
    /\ cx.pc = "services"
    /\ ~cx.ip.done
    /\ cx.ip.i <= Len(Services)
    /\ \E out \in AppOutcomes : \E secs \in RequestSeconds(out, IP_TIMEOUT_SECS) :
        cx' = [cx EXCEPT !.ip = ServiceStep(cx.ip, out),
                         !.calls = Append(@, Services[cx.ip.i]),
                         !.stall = @ + secs]
    /\ UNCHANGED collectOther

\* get_public_ip returns: a service succeeded, or the loop ran out of services.
CollectPublicIpReturns ==
    /\ cx.pc = "services"
    /\ cx.ip.done \/ cx.ip.i > Len(Services)
    /\ LET st == IF cx.ip.done THEN cx.ip ELSE ServicesExhausted(cx.ip)
       IN  cx' = [cx EXCEPT !.pc = "benchmark_bandwidth", !.ip = st, !.public_ip = st.ret]
    /\ UNCHANGED collectOther

\* Mutant of CollectBandwidth: a failed download is requested once more.
CollectBandwidth_Retries ==
    /\ cx.pc = "benchmark_bandwidth"
    /\ \E dl \in AppDownloads : \E secs \in RequestSeconds(dl, BANDWIDTH_TIMEOUT_SECS) :
        cx' = [cx EXCEPT !.pc = "return", !.bandwidth_mbps = benchmark_bandwidth(dl),
                         !.calls = IF benchmark_bandwidth(dl) = None
                                   THEN @ \o <<"benchmark_bandwidth", test_urls[1],
                                               test_urls[1]>>
                                   ELSE @ \o <<"benchmark_bandwidth", test_urls[1]>>,
                         !.stall = @ + secs]
    /\ UNCHANGED collectOther

\* bandwidth_mbps: Self::benchmark_bandwidth(), its one request included.
CollectBandwidth ==
    /\ cx.pc = "benchmark_bandwidth"
    /\ \E dl \in AppDownloads : \E secs \in RequestSeconds(dl, BANDWIDTH_TIMEOUT_SECS) :
        cx' = [cx EXCEPT !.pc = "return", !.bandwidth_mbps = benchmark_bandwidth(dl),
                         !.calls = @ \o <<"benchmark_bandwidth", test_urls[1]>>,
                         !.stall = @ + secs]
    /\ UNCHANGED collectOther

\* `Self { ... }`: the Snapshot is put together and returned.
CollectReturns ==
    /\ cx.pc = "return"
    /\ cx' = [cx EXCEPT !.pc = "done",
                        !.ret = [host |-> cx.host,
                                 network_details |->
                                    [local_ip |-> cx.local_ip,
                                     public_ip |-> cx.public_ip,
                                     bandwidth_mbps |-> cx.bandwidth_mbps]]]
    /\ UNCHANGED collectOther

NextCollect ==
    \/ CollectHost
    \/ CollectLocalIp
    \/ CollectPublicIp
    \/ CollectService
    \/ CollectPublicIpReturns
    \/ CollectBandwidth
    \/ CollectReturns

SpecCollect == Init /\ [][NextCollect]_vars

-----------------------------------------------------------------------------
(* Terminal lifecycle: what App::run attempted, read off `ops` *)

IsPrefix(s, t) == Len(s) <= Len(t) /\ s = SubSeq(t, 1, Len(s))

OpNames(log) == [k \in 1..Len(log) |-> log[k].op]

AcquireSteps == <<"enable_raw_mode", "EnterAlternateScreen", "EnableMouseCapture">>
ReleaseSteps == <<"disable_raw_mode", "LeaveAlternateScreen", "DisableMouseCapture",
                  "show_cursor">>

Range(f) == {f[k] : k \in DOMAIN f}

IsRelease(o) == o.op \in Range(ReleaseSteps)
IsAcquire(o) == o.op \in Range(AcquireSteps)
IsResourceRelease(o) == IsRelease(o) /\ o.op # "show_cursor"

Attempted(name) == \E k \in 1..Len(ops) : ops[k].op = name
Failed(name) == \E k \in 1..Len(ops) : ops[k].op = name /\ ~ops[k].ok

AllReleaseStepsAttempted == \A k \in 1..Len(ReleaseSteps) : Attempted(ReleaseSteps[k])

FailedReleases == SelectSeq(ops, LAMBDA o : IsRelease(o) /\ ~o.ok)

LoopFailed == loopResult \in {"draw", "event::poll", "event::read"}

AcquisitionFailed ==
    runResult \in {"EnterAlternateScreen", "EnableMouseCapture", "Terminal::new"}

\* C1: if run_app returned an error, then when App::run has returned every release
\* step (disable raw mode, leave alternate screen, disable mouse capture, show
\* cursor) was executed, and the terminal mode flags are reset.
C1_TeardownAfterLoopError ==
    (pc = "returned" /\ LoopFailed) =>
        /\ AllReleaseStepsAttempted
        /\ FailedReleases = <<>> =>
            ~rawMode /\ ~altScreen /\ ~mouseCapture /\ ~cursorHidden

\* C2: when a release step of the teardown fails, every remaining release step is
\* still attempted before App::run returns.
C2_TeardownAttemptsEveryStep ==
    (pc = "returned" /\ FailedReleases # <<>>) => AllReleaseStepsAttempted

\* C3: whenever a teardown step failed, App::run returns the error of the first
\* teardown step that failed, whatever run_app returned.
C3_FirstTeardownErrorReturned ==
    (pc = "returned" /\ FailedReleases # <<>>) => runResult = FailedReleases[1].op

C3_Witness ==
    /\ pc = "returned"
    /\ loopResult = "draw"
    /\ Failed("LeaveAlternateScreen")
    /\ runResult = "LeaveAlternateScreen"

\* C4: if the acquisition fails part-way (raw mode enabled, then entering the
\* alternate screen, enabling mouse capture or constructing the terminal fails),
\* everything acquired is released before App::run returns the error; raw mode is
\* not left enabled.
C4_AcquisitionFailureReleases ==
    (pc = "returned" /\ AcquisitionFailed) =>
        ~rawMode /\ ~altScreen /\ ~mouseCapture

-----------------------------------------------------------------------------
(* The network probes *)

WhitespaceOnly(body) == \A k \in 1..Len(body) : IsWhitespace(body[k])

\* A service fails: the request times out or errors, the body cannot be read, or
\* the body is empty or whitespace only.
EndpointFails(out) ==
    out.kind # "response" \/ ~out.textOk \/ WhitespaceOnly(out.body)

\* t is s without its leading and trailing whitespace, and is not empty.
IsTrimOf(t, s) ==
    \E a \in 1..Len(s) : \E b \in a..Len(s) :
        /\ t = SubSeq(s, a, b)
        /\ ~IsWhitespace(s[a]) /\ ~IsWhitespace(s[b])
        /\ \A k \in 1..Len(s) : (k < a \/ k > b) => IsWhitespace(s[k])

\* C6: get_public_ip contacts the services in the declared order, contacts service
\* i+1 only after service i failed, and contacts none after the first success; if
\* service 1 times out and service 2 succeeds, the result is service 2's trimmed
\* body and service 3 is not contacted.
C6_OrderedShortCircuit ==
    /\ IsPrefix(ip.contacted, Services)
    /\ Len(ip.seen) = Len(ip.contacted)
    /\ \A k \in 1..(Len(ip.seen) - 1) : EndpointFails(ip.seen[k])
    /\ (ip.seen # <<>> /\ ~EndpointFails(ip.seen[Len(ip.seen)])) => ip.done
    /\ (Len(ip.seen) >= 2 /\ ip.seen[1].kind = "timeout" /\ ~EndpointFails(ip.seen[2])) =>
        /\ ip.done
        /\ ip.ret.some
        /\ IsTrimOf(ip.ret.val, ip.seen[2].body)
        /\ ip.contacted = SubSeq(Services, 1, 2)

C6_Witness ==
    /\ ip.done
    /\ ip.contacted = <<"https://api.ipify.org", "https://ifconfig.me/ip">>
    /\ ip.seen[1].kind = "timeout"
    /\ ip.seen[2].body = <<"2", " ">>
    /\ ip.ret = Some(<<"2">>)

\* C7: get_public_ip skips every service that times out, errors or returns an empty
\* or whitespace-only body and tries the next; it returns the trimmed, non-empty
\* body of the first service that does not fail, and None if and only if all
\* services fail.
C7_FallbackResult ==
    /\ ~ip.done =>
        /\ \A k \in 1..Len(ip.seen) : EndpointFails(ip.seen[k])
        /\ ip.i = Len(ip.seen) + 1
    /\ ip.done =>
        /\ ip.ret = None <=>
            /\ Len(ip.seen) = Len(Services)
            /\ \A k \in 1..Len(ip.seen) : EndpointFails(ip.seen[k])
        /\ ip.ret.some =>
            /\ ip.ret.val # <<>>
            /\ \E k \in 1..Len(ip.seen) :
                /\ ~EndpointFails(ip.seen[k])
                /\ \A j \in 1..(k - 1) : EndpointFails(ip.seen[j])
                /\ IsTrimOf(ip.ret.val, ip.seen[k].body)

C7_Witness ==
    /\ ip.done
    /\ Len(ip.seen) = 3
    /\ ip.seen[1].kind = "error"
    /\ ip.seen[2].kind = "response" /\ ip.seen[2].textOk /\ ip.seen[2].body = <<" ">>
    /\ ip.seen[3].body = <<" ", "1">>
    /\ ip.ret = Some(<<"1">>)

\* C8: benchmark_bandwidth returns None whenever the download fails (timeout,
\* connection error, body read error, zero elapsed time), and a strictly positive
\* finite value whenever it succeeds with elapsed time > 0, whatever the number of
\* bytes received.
C8_BandwidthAbsentOrPositive ==
    bw.done =>
        LET failed == bw.dl.kind # "response" \/ ~bw.dl.bytesOk \/ bw.dl.micros = 0
        IN  /\ failed => bw.ret = None
            /\ ~failed => (bw.ret.some /\ bw.ret.val.num > 0 /\ bw.ret.val.den > 0)

-----------------------------------------------------------------------------
(* The application state machine *)

IsOption(f) == f = None \/ (DOMAIN f = {"some", "val"} /\ f.some = TRUE)

PressOf(key) == [type |-> "Key", kind |-> "Press", code |-> key]

\* C9: no outcome of the probes ends or fails the loop: every collect, the first
\* and each refresh, leaves a Snapshot whose three probe fields are present or
\* absent and the loop goes on; the loop ends only by a press of 'q' or by a failed
\* draw, poll or read.
C9_ProbesNeverEndLoop ==
    /\ [](collects > 0 =>
            /\ IsOption(system_info.network_details.local_ip)
            /\ IsOption(system_info.network_details.public_ip)
            /\ IsOption(system_info.network_details.bandwidth_mbps))
    /\ [][collects' > collects =>
            /\ system_info' \in Snapshots
            /\ loopResult' = "none"
            /\ pc' \in LoopPcs \cup {"enable_raw_mode"}]_vars
    /\ [][(loopResult = "none" /\ loopResult' # "none") =>
            \/ loopResult' = "Ok" /\ pc = "read" /\ pending = PressOf("q")
            \/ loopResult' = "draw" /\ pc = "draw"
            \/ loopResult' = "event::poll" /\ pc = "poll"
            \/ loopResult' = "event::read" /\ pc = "read"]_vars

C9_Witness ==
    /\ pc \in LoopPcs
    /\ collects = MaxCollects
    /\ timerRefreshes > 0
    /\ system_info.network_details =
        [local_ip |-> None, public_ip |-> None, bandwidth_mbps |-> None]

\* C10 as stated: once the keys handled are exactly 'r', '3', 'q', the tab is Disks,
\* the loop has exited, and collect was invoked exactly twice.
C10_ScenarioExactlyTwoCollects ==
    scenario = Len(ScenarioKeys) =>
        /\ current_tab = "Disks"
        /\ loopResult = "Ok" /\ pc \notin LoopPcs
        /\ collects = 2

\* C10 as amended: once the keys handled are exactly 'r', '3', 'q', the tab is
\* Disks, the loop has exited, and collect was invoked twice (the initial one and
\* the manual refresh) plus once for every timer refresh that fired in between.
C10_ScenarioCollects ==
    scenario = Len(ScenarioKeys) =>
        /\ current_tab = "Disks"
        /\ loopResult = "Ok" /\ pc \notin LoopPcs
        /\ collects = 2 + timerRefreshes

C10_Witness ==
    /\ scenario = Len(ScenarioKeys)
    /\ pc = "returned" /\ runResult = "Ok"
    /\ current_tab = "Disks"
    /\ collects = 2 /\ timerRefreshes = 0

\* The step of run_app that handles the pending event: event::read returned it.
Handles(e) ==
    /\ pc = "read" /\ pc' # "read"
    /\ pending = e
    /\ loopResult' # "event::read"

C12_ManualRefresh ==
    [][Handles(PressOf("r")) =>
        /\ collects' = collects + 1
        /\ timerRefreshes' = timerRefreshes
        /\ system_info' \in Snapshots
        /\ elapsed' = 0
        /\ status_message' = "System information refreshed!"
        /\ current_tab' = current_tab
        /\ loopResult' = "none" /\ pc' = "draw"]_vars

C12_Witness ==
    /\ status_message = "System information refreshed!"
    /\ current_tab = "Memory"
    /\ collects = 2 /\ timerRefreshes = 0
    /\ elapsed = 0
    /\ pc = "draw"

\* C13: the timer check refreshes if and only if more than 2 seconds have elapsed
\* since last-refresh; when it fires it invokes collect once, replaces the Snapshot
\* and resets last-refresh, leaving status message and tab unchanged; when it does
\* not fire the whole state is unchanged.
C13_TimerRefresh ==
    [][(pc = "timer" /\ pc' # "timer") =>
        IF elapsed > 2
        THEN /\ collects' = collects + 1
             /\ timerRefreshes' = timerRefreshes + 1
             /\ system_info' \in Snapshots
             /\ elapsed' = 0
             /\ UNCHANGED <<status_message, current_tab>>
        ELSE UNCHANGED <<appVars, collects, timerRefreshes>>]_vars

C13_Witness ==
    /\ pc = "poll"
    /\ timerRefreshes = 1 /\ collects = 2
    /\ elapsed = 0
    /\ status_message = "Showing: Disks" /\ current_tab = "Disks"

\* The keys '1'..'4', the tab each selects and the status message it sets.
TabKeys == <<"1", "2", "3", "4">>
TabOrder == <<"Overview", "Memory", "Disks", "Network">>
TabStatus == <<"Showing: Overview", "Showing: Memory", "Showing: Disks",
               "Showing: Network">>

\* C14: from every state, key n in '1'..'4' sets the tab to Overview, Memory,
\* Disks, Network respectively and the status message to the matching 'Showing:'
\* text, invokes no collect and leaves Snapshot and last-refresh unchanged; the tab
\* is always one of the four variants.
C14_SelectTab ==
    /\ [][\A n \in 1..4 : Handles(PressOf(TabKeys[n])) =>
            /\ current_tab' = TabOrder[n]
            /\ status_message' = TabStatus[n]
            /\ UNCHANGED <<system_info, elapsed, collects, timerRefreshes>>
            /\ loopResult' = "none" /\ pc' = "draw"]_vars
    /\ [](collects > 0 => current_tab \in {"Overview", "Memory", "Disks", "Network"})

C14_Witness ==
    /\ pc = "draw"
    /\ current_tab = "Network"
    /\ status_message = "Showing: Network"
    /\ collects = 1

C16_Help ==
    [][Handles(PressOf("h")) =>
        /\ status_message' =
            "Keys: q=quit, r=refresh, 1=overview, 2=memory, 3=disks, 4=network"
        /\ UNCHANGED <<current_tab, system_info, elapsed, collects, timerRefreshes>>
        /\ loopResult' = "none" /\ pc' = "draw"]_vars

C16_Witness ==
    /\ pc = "draw"
    /\ status_message = HelpText
    /\ current_tab = "Network"
    /\ loopResult = "none"

RecognisedKeys == {"q", "h", "r", "1", "2", "3", "4"}

\* C17: every event other than a press of lowercase 'q', 'h', 'r', '1'..'4' (any
\* other key, uppercase 'Q', 'H', 'R' included, any key event that is not a press,
\* any event that is not a key event) leaves the whole application state unchanged,
\* invokes no collect and does not end the loop.
C17_OtherEventsIgnored ==
    [][\A e \in Events \ {PressOf(k) : k \in RecognisedKeys} : Handles(e) =>
        /\ UNCHANGED <<appVars, collects, timerRefreshes>>
        /\ loopResult' = "none" /\ pc' = "draw"]_vars

C17_Witness ==
    /\ pc = "draw"
    /\ scenario = -1
    /\ status_message = Welcome /\ current_tab = "Overview"
    /\ collects = 1
    /\ loopResult = "none"

\* C18, as stated: in the interactive path the first collect (and so every network
\* probe) happens only after raw mode and the alternate screen have been acquired.
C18_TerminalBeforeFirstCollect ==
    collects > 0 => Attempted("enable_raw_mode") /\ Attempted("EnterAlternateScreen")

\* C18, amended: the first collect is made by App::new before any terminal step is
\* attempted; the terminal is acquired after it, and the loop starts only once raw
\* mode, the alternate screen and mouse capture are all held.
C18_FirstCollectBeforeTerminal ==
    /\ [](ops # <<>> => collects >= 1)
    /\ [][(collects = 0 /\ collects' # 0) =>
            /\ ops = <<>> /\ ops' = <<>>
            /\ ~rawMode /\ ~altScreen /\ ~mouseCapture
            /\ pc' = "enable_raw_mode"]_vars
    /\ [](pc \in LoopPcs =>
            /\ collects >= 1
            /\ rawMode /\ altScreen /\ mouseCapture
            /\ \A k \in 1..Len(ops) : ops[k].ok)

C18_Witness ==
    /\ pc = "draw"
    /\ drawn = NoSnapshot
    /\ collects = 1
    /\ system_info \in Snapshots
    /\ rawMode /\ altScreen /\ mouseCapture
    /\ Attempted("Terminal::new")

\* C19: every draw renders the snapshot of the most recently completed collect: a
\* draw shows the current snapshot and no collect runs during it; a collect replaces
\* the snapshot whole, in one step that is not a draw; the snapshot changes in no
\* other way, so the draw that follows a refresh shows that refresh's snapshot.
C19_DrawShowsLatestSnapshot ==
    /\ [][(pc = "draw" /\ pc' = "timer") =>
            /\ drawn' = system_info
            /\ system_info' = system_info
            /\ collects' = collects]_vars
    /\ [][collects' # collects =>
            /\ collects' = collects + 1
            /\ system_info' \in Snapshots
            /\ pc # "draw" /\ pc' # "timer"
            /\ drawn' = drawn]_vars
    /\ [][collects' = collects => system_info' = system_info]_vars
    /\ [](pc = "timer" => drawn = system_info)

C19_Witness ==
    /\ pc = "timer"
    /\ collects = 3
    /\ timerRefreshes = 1
    /\ status_message = Refreshed
    /\ drawn = system_info
    /\ drawn.network_details.public_ip # None

\* The three probe fields of a Snapshot.
ProbeFields == {"local_ip", "public_ip", "bandwidth_mbps"}

\* The line shows the probe field: its value, or the placeholder when it is absent.
ShowsField(item, field, opt) ==
    /\ field \in DOMAIN item
    /\ IF opt.some
       THEN item[field] = (IF field = "bandwidth_mbps" THEN ShownMbps(opt) ELSE Shown(opt))
       ELSE item[field] = [placeholder |-> "Not available"]

\* The line belongs to one interface's block.
IsInterfaceLine(item) ==
    \/ "index" \in DOMAIN item
    \/ "name" \in DOMAIN item
    \/ "bytes" \in DOMAIN item

\* The view shows each probe field, ahead of every interface line.
ShowsProbesFirst(view) ==
    \A field \in ProbeFields :
        \E k \in 1..Len(view.items) :
            /\ ShowsField(view.items[k], field, view.info.network_details[field])
            /\ \A j \in 1..Len(view.items) : IsInterfaceLine(view.items[j]) => k < j

\* C20, as stated: for every Snapshot the interactive Network tab shows the local
\* IP, the public IP and the bandwidth ahead of the per-interface byte counters,
\* with 'Not available' for each of the three that is absent.
C20_NetworkTabShowsProbes ==
    network_view.surface = "tui" => ShowsProbesFirst(network_view)

\* The command-line Network view does show them so.
PrintedNetworkShowsProbes ==
    network_view.surface = "cli" => ShowsProbesFirst(network_view)

\* The interactive Network view shows no probe field at all, whatever the Snapshot.
RenderNetworkOmitsProbes ==
    network_view.surface = "tui" =>
        \A k \in 1..Len(network_view.items) :
            DOMAIN network_view.items[k] \cap ProbeFields = {}

\* App::run returned the error of an acquisition step.
SetupFailed ==
    runResult \in {"enable_raw_mode", "EnterAlternateScreen", "EnableMouseCapture",
                   "Terminal::new"}

\* run_app returned the error of the input poll or of the input read.
InputFailed == loopResult \in {"event::poll", "event::read"}

\* C21: the exit status is 0 when the loop ends by the quit key and the teardown
\* succeeds; when the terminal acquisition fails or polling / reading input fails,
\* the failure ends the loop, the teardown is run (once raw mode was enabled, its
\* release is at least attempted) and the exit status is non-zero.
C21_ExitStatus ==
    pc = "returned" =>
        /\ (loopResult = "Ok" /\ FailedReleases = <<>>) => exit_status = 0
        /\ (SetupFailed \/ InputFailed) =>
            /\ exit_status # 0
            /\ Attempted("enable_raw_mode") /\ ~Failed("enable_raw_mode") =>
                Attempted("disable_raw_mode")

\* The part of C21 about the exit status alone: 0 exactly when the loop ended by the
\* quit key and no teardown step failed.
ExitStatusFollowsOutcome ==
    pc = "returned" =>
        /\ exit_status = 0 <=> (loopResult = "Ok" /\ FailedReleases = <<>>)
        /\ InputFailed => Attempted("disable_raw_mode")

\* C22, as stated: for used <= total the percentage is used / total * 100 truncated
\* to an integer (0 when total = 0), and the bar is 50 glyphs: floor(percent / 2)
\* filled ones followed by 50 - floor(percent / 2) empty ones.
C22_PercentAndBar ==
    call.fn = "usage_bar" =>
        /\ call.percent = (IF call.total > 0 THEN (call.used * 100) \div call.total ELSE 0)
        /\ Len(call.bar) = 50
        /\ \A i \in 1..50 :
            call.bar[i] = (IF i <= call.percent \div 2 THEN "filled" ELSE "empty")

\* What does hold of the percentage and the bar: the percentage is the truncated
\* quotient or one less, within 0..100, and the bar is built from it as C22 says.
PercentWithinOneAndBar ==
    call.fn = "usage_bar" =>
        /\ call.percent \in 0..100
        /\ call.total = 0 => call.percent = 0
        /\ call.total > 0 =>
            LET exact == (call.used * 100) \div call.total
            IN  /\ call.percent \in {exact - 1, exact}
                /\ call.percent = exact - 1 => (call.used * 100) % call.total = 0
        /\ Len(call.bar) = 50
        /\ \A i \in 1..50 :
            call.bar[i] = (IF i <= call.percent \div 2 THEN "filled" ELSE "empty")

\* Arithmetic on byte counts in base 1024, for stating what format_bytes prints.
RECURSIVE MulDigits(_, _, _)
MulDigits(digits, k, carry) ==
    IF digits = <<>> THEN (IF carry = 0 THEN <<>> ELSE <<carry>>)
    ELSE LET t == digits[Len(digits)] * k + carry
         IN  Append(MulDigits(Front(digits), k, t \div 1024), t % 1024)

RECURSIVE DigitsToInt(_)
DigitsToInt(digits) ==
    IF digits = <<>> THEN 0 ELSE 1024 * DigitsToInt(Front(digits)) + digits[Len(digits)]

RECURSIVE SuccDigits(_)
SuccDigits(digits) ==
    IF digits = <<>> THEN <<1>>
    ELSE IF digits[Len(digits)] < 1023
         THEN Append(Front(digits), digits[Len(digits)] + 1)
         ELSE Append(SuccDigits(Front(digits)), 0)

\* The unit index the claim names: min(4, largest k with 1024^k <= b), 0 for b = 0.
UnitIndexOf(digits) ==
    IF digits = <<>> THEN 0 ELSE IF Len(digits) > 4 THEN 4 ELSE Len(digits) - 1

\* 100 * b / 1024^k: its integer part, and its fraction in k base-1024 digits.
HundredthsOf(digits, k) ==
    LET x == MulDigits(digits, 100, 0)
        padded == Repeat(0, IF Len(x) < k THEN k - Len(x) ELSE 0) \o x
        n == Len(padded) - k
    IN  [whole |-> DigitsToInt(SubSeq(padded, 1, n)),
         frac |-> SubSeq(padded, n + 1, Len(padded))]

\* The fraction against one half: "below", "half" or "above".
AgainstHalf(frac) ==
    IF frac = <<>> \/ frac[1] < 512 THEN "below"
    ELSE IF frac[1] > 512 \/ \E i \in 2..Len(frac) : frac[i] # 0 THEN "above"
    ELSE "half"

UnitNames == <<"B", "KB", "MB", "GB", "TB">>
UnitPosition(unit) == CHOOSE i \in 1..5 : UnitNames[i] = unit

\* The magnitude printed as `a` is at most the one printed as `b`.
MagnitudeLeq(a, b) ==
    LET d == UnitPosition(b.unit) - UnitPosition(a.unit)
    IN  IF d = 0 THEN a.hundredths <= b.hundredths
        ELSE IF d = 1 THEN (a.hundredths + 1023) \div 1024 <= b.hundredths
        ELSE d > 1 /\ b.hundredths >= 1

\* C23: format_bytes(b) uses the unit of index min(4, largest k with 1024^k <= b)
\* and prints b / 1024^k with two decimals (the nearest hundredth while b is exact
\* as f64, a hundredth next to the quotient beyond); so 1024^k prints as 1.00 of
\* unit k, 0 as 0.00 B, 1536 as 1.50 KB; and the printed magnitude never decreases
\* from b to b + 1, a unit threshold included.
C23_FormatBytes ==
    call.fn = "format_bytes" =>
        LET b == call.bytes
            k == UnitIndexOf(b)
            q == HundredthsOf(b, k)
            side == AgainstHalf(q.frac)
        IN  /\ call.ret.unit = UnitNames[k + 1]
            /\ call.ret.hundredths \in {q.whole, q.whole + 1}
            /\ (\A i \in 1..Len(q.frac) : q.frac[i] = 0) => call.ret.hundredths = q.whole
            /\ (Len(b) <= 5 /\ side = "below") => call.ret.hundredths = q.whole
            /\ (Len(b) <= 5 /\ side = "above") => call.ret.hundredths = q.whole + 1
            /\ (b # <<>> /\ Len(b) <= 5 /\ b = <<1>> \o Repeat(0, Len(b) - 1)) =>
                call.ret = [hundredths |-> 100, unit |-> UnitNames[Len(b)]]
            /\ b = <<>> => call.ret = [hundredths |-> 0, unit |-> "B"]
            /\ b = <<1, 512>> => call.ret = [hundredths |-> 150, unit |-> "KB"]
            /\ MagnitudeLeq(call.ret, format_bytes_bits(DigitsToBits(SuccDigits(b))))

C23_Witness ==
    /\ call.fn = "format_bytes"
    /\ call.bytes = <<1, 0, 0, 0, 0>>
    /\ call.ret = [hundredths |-> 100, unit |-> "TB"]

UptimeUnits == <<"d", "h", "m", "s">>
UnitSeconds == [d |-> 86400, h |-> 3600, m |-> 60, s |-> 1]

RECURSIVE PartsSeconds(_)
PartsSeconds(parts) ==
    IF parts = <<>> THEN 0
    ELSE Head(parts).value * UnitSeconds[Head(parts).unit] + PartsSeconds(Tail(parts))

\* C24: format_uptime(s) starts at the largest non-zero unit among days, hours,
\* minutes, prints every smaller unit down to seconds even when it is zero, always
\* ends with the seconds; hours < 24, minutes < 60, seconds < 60 and the parts add
\* up to s (90 -> 1m 30s, 3600 -> 1h 0m 0s, 90061 -> 1d 1h 1m 1s, 0 -> 0s).
C24_FormatUptime ==
    call.fn = "format_uptime" =>
        LET out == call.ret
            n == Len(out)
        IN  /\ n \in 1..4
            /\ \A i \in 1..n : out[i].unit = UptimeUnits[4 - n + i]
            /\ out[n].unit = "s"
            /\ n > 1 => out[1].value > 0
            /\ \A i \in 1..n :
                /\ out[i].unit = "h" => out[i].value < 24
                /\ out[i].unit \in {"m", "s"} => out[i].value < 60
                /\ out[i].value >= 0
            /\ PartsSeconds(out) = call.seconds
            /\ call.seconds = 90 => out = <<Part(1, "m"), Part(30, "s")>>
            /\ call.seconds = 3600 => out = <<Part(1, "h"), Part(0, "m"), Part(0, "s")>>
            /\ call.seconds = 90061 =>
                out = <<Part(1, "d"), Part(1, "h"), Part(1, "m"), Part(1, "s")>>
            /\ call.seconds = 0 => out = <<Part(0, "s")>>

C24_Witness ==
    /\ call.fn = "format_uptime"
    /\ call.seconds = 3600
    /\ call.ret = <<Part(1, "h"), Part(0, "m"), Part(0, "s")>>

\* How many times `name` occurs in the calls of the collect.
Count(name, calls) == Cardinality({k \in 1..Len(calls) : calls[k] = name})

\* C25: one collect reads the host metrics once, then calls get_local_ip, then
\* get_public_ip, then benchmark_bandwidth, each exactly once, with exactly one
\* download request and no retry, and the Snapshot it returns holds all results.
C25_CollectCallsEachProbeOnce ==
    /\ \E n \in 0..Len(Services) :
        IsPrefix(cx.calls,
                 <<"host_metrics", "get_local_ip", "get_public_ip">>
                    \o SubSeq(Services, 1, n)
                    \o <<"benchmark_bandwidth", "https://speed.cloudflare.com/__down?bytes=1000000">>)
    /\ cx.pc = "done" =>
        /\ \A name \in {"host_metrics", "get_local_ip", "get_public_ip",
                        "benchmark_bandwidth",
                        "https://speed.cloudflare.com/__down?bytes=1000000"} :
            Count(name, cx.calls) = 1
        /\ Len(cx.calls) = 5 + Len(cx.ip.seen)
        /\ cx.ret.host = cx.host
        /\ cx.ret.network_details.local_ip = cx.local_ip
        /\ cx.ret.network_details.public_ip = cx.ip.ret
        /\ cx.ret.network_details.bandwidth_mbps = cx.bandwidth_mbps
        /\ cx.ret \in Snapshots

C25_Witness ==
    /\ cx.pc = "done"
    /\ Len(cx.ip.seen) = 3
    /\ cx.ret.network_details.local_ip = None
    /\ cx.ret.network_details.public_ip = Some(<<"1">>)
    /\ cx.ret.network_details.bandwidth_mbps = None

\* C26, as stated: the time one collect spends in its requests is at most the sum of
\* the probe timeouts, and that sum is at most about 20 seconds.
C26_StallAtMostTwentySeconds ==
    /\ cx.stall <= Len(Services) * 5 + 10
    /\ cx.stall <= 20

\* C26, amended: the time one collect spends in its requests is at most the sum of
\* the probe timeouts, 5 seconds for each public-IP endpoint contacted and 10 for
\* the download, which is 3 * 5 + 10 = 25 seconds in the worst case.
C26_StallAtMostSumOfTimeouts ==
    /\ cx.stall <= 5 * Len(cx.ip.seen)
                    + (IF cx.pc \in {"return", "done"} THEN 10 ELSE 0)
    /\ cx.stall <= 25

C26_Witness ==
    /\ cx.pc = "done"
    /\ cx.stall = 25
    /\ \A k \in 1..3 : cx.ip.seen[k].kind = "timeout"
    /\ cx.ret.network_details.public_ip = None
    /\ cx.ret.network_details.bandwidth_mbps = None

\* No terminal operation has failed and the loop body has returned no error.
NoFailure ==
    /\ \A k \in 1..Len(ops) : ops[k].ok
    /\ loopResult \in {"none", "Ok"}

\* App::run has returned Ok with the terminal restored.
Restored ==
    /\ pc = "returned" /\ runResult = "Ok"
    /\ ~rawMode /\ ~altScreen /\ ~mouseCapture /\ ~cursorHidden

\* C27: each iteration of the loop is one draw, then the timer check with at most
\* one refresh, then one input poll, in that order, so that a draw and a poll lie
\* between two timer-driven collects; and, as long as no terminal operation fails, an
\* iteration that has drawn reaches its poll, and a 'q' press the poll has reported
\* is handled: the loop ends and App::run returns with the terminal restored.
C27_LoopOrderAndTermination ==
    /\ [][(pc \in LoopPcs /\ pc' # pc /\ NoFailure') =>
            \/ pc = "draw" /\ pc' = "timer"
            \/ pc = "timer" /\ pc' = "poll"
            \/ pc = "poll" /\ pc' \in {"read", "draw"}
            \/ pc = "read" /\ pc' = "draw"
            \/ pc = "read" /\ pending = PressOf("q") /\ pc' = "disable_raw_mode"]_vars
    /\ [][timerRefreshes' # timerRefreshes =>
            /\ pc = "timer" /\ pc' = "poll"
            /\ timerRefreshes' = timerRefreshes + 1
            /\ collects' = collects + 1]_vars
    /\ [][(pc \in LoopPcs /\ pc' # pc) =>
            (collects' # collects => pc \in {"timer", "read"})]_vars
    /\ ([]NoFailure) => ((pc = "timer") ~> (pc = "poll"))
    /\ ([]NoFailure) => ((pc = "read" /\ pending = PressOf("q")) ~> Restored)

C27_Witness ==
    /\ Restored
    /\ timerRefreshes = 2
    /\ loopResult = "Ok"
    /\ NoFailure

RenderCalls == {"render_overview", "render_memory", "render_disks"}

\* C28: no renderer panics on a Snapshot whose memory and swap respect used <= total,
\* whatever its disk entries: no subtraction of a renderer goes below zero.
C28_RenderNeverUnderflows ==
    call.fn \in RenderCalls => ~call.ret.panicked

\* What the renderers do: the overview and memory tabs never panic under the
\* contract, and the disks tab panics exactly when it reaches an entry whose
\* available_space exceeds its total_space, in a build with overflow checks or with a
\* total above zero.
RenderPanicsOnOversizedDisk ==
    /\ call.fn \in {"render_overview", "render_memory"} => ~call.ret.panicked
    /\ call.fn = "render_disks" =>
        (call.ret.panicked <=>
            \E i \in 1..Len(call.disks) :
                /\ call.disks[i].available_space > call.disks[i].total_space
                /\ call.overflow_checks \/ call.disks[i].total_space > 0)

\* C29: get_public_ip takes a service as successful as soon as a response arrives
\* whose body reads and is not empty once trimmed, whatever the HTTP status: the
\* trimmed body of a 4xx/5xx response is returned as the address and no later
\* service is contacted.
C29_StatusIgnored ==
    \A k \in 1..Len(ip.seen) :
        (/\ ip.seen[k].kind = "response"
         /\ ip.seen[k].textOk
         /\ ~WhitespaceOnly(ip.seen[k].body)) =>
            /\ ip.done
            /\ k = Len(ip.seen)
            /\ ip.contacted = SubSeq(Services, 1, k)
            /\ ip.ret.some
            /\ IsTrimOf(ip.ret.val, ip.seen[k].body)

C29_Witness ==
    /\ ip.done
    /\ Len(ip.seen) = 2
    /\ ip.seen[1].kind = "timeout"
    /\ ip.seen[2].kind = "response" /\ ip.seen[2].status = 503
    /\ ip.seen[2].body = <<" ", "1">>
    /\ ip.ret = Some(<<"1">>)
    /\ ip.contacted = <<"https://api.ipify.org", "https://ifconfig.me/ip">>

====
